---- MODULE Spec2Model ----
(***************************************************************************)
(* RandomGraph (src/src/random_graph.hpp): an openFrameworks application   *)
(* that generates a random graph under one of three models (Erdos-Renyi,   *)
(* Barabasi-Albert, Watts-Strogatz) over nodes placed in 3D space and      *)
(* moves the nodes by noise and by spring forces along the edges.          *)
(*                                                                         *)
(* Reals (float) are fixed-point integers in hundredths: 1.0 is 100.       *)
(* Node and edge indices are 0-based as in the code; the TLA+ sequence     *)
(* mNodes holds node i at position i + 1.                                  *)
(***************************************************************************)
EXTENDS Integers, Sequences, FiniteSets, TLC

VARIABLES
    pc,             \* "constructed" | "running" | "crashed"
    mParams,        \* std::unordered_map<std::string, float>
    mGraphType,     \* GraphType, "indeterminate" before setup
    mNodes,         \* std::vector<Node>
    mEdges,         \* std::vector<Edge>
    mEdgeProb,      \* float, "indeterminate" until first assigned
    mNumEdges,      \* int
    mNumNeighbors,  \* int
    mRewireProb,    \* float
    call,           \* history: the last generation call and its arguments
    steps           \* history: update() calls since the last generation

vars == <<pc, mParams, mGraphType, mNodes, mEdges, mEdgeProb, mNumEdges,
          mNumNeighbors, mRewireProb, call, steps>>

(***************************************************************************)
(* Bounds of the model.                                                    *)
(***************************************************************************)
\* "numNodes" of the application run (100 in the source, line 68)
NumNodes == 2
\* largest numNodes of a direct generator call
MaxNodes == 3
\* direct generator calls that would build more nodes and edges together
\* are not explored
MaxSize == 6
\* update() calls explored after one generation
MaxSteps == 2

(***************************************************************************)
(* Fixed-point arithmetic and 3D vectors (ofVec3f).                        *)
(***************************************************************************)
FixMul(a, b) == (a * b) \div 100

ToInt(v) == v \div 100

Zero3 == <<0, 0, 0>>

VAdd(a, b) == <<a[1] + b[1], a[2] + b[2], a[3] + b[3]>>

VSub(a, b) == <<a[1] - b[1], a[2] - b[2], a[3] - b[3]>>

VScale(a, s) == <<FixMul(a[1], s), FixMul(a[2], s), FixMul(a[3], s)>>

RECURSIVE SqrtIter(_, _)
SqrtIter(n, x) ==
    LET y == (x + n \div x) \div 2
    IN  IF y >= x THEN x ELSE SqrtIter(n, y)

\* floor of the square root
ISqrt(n) == IF n <= 0 THEN 0 ELSE SqrtIter(n, n \div 2 + 1)

VLength(a) == ISqrt(a[1] * a[1] + a[2] * a[2] + a[3] * a[3])

\* ofVec3f::distance
Distance(a, b) == VLength(VSub(a, b))

\* ofVec3f::getNormalized: the zero vector when the length is zero
VNormalized(a) ==
    LET len == VLength(a)
    IN  IF len > 0
        THEN <<(a[1] * 100) \div len, (a[2] * 100) \div len, (a[3] * 100) \div len>>
        ELSE Zero3

(***************************************************************************)
(* The random engine mEngine: each distribution is the set of values a     *)
(* draw may return.  Reals are sampled at the lower end and the middle of  *)
(* their half-open range.                                                  *)
(***************************************************************************)
UniformReal(lo, hi) == IF lo < hi THEN {lo, (lo + hi) \div 2} ELSE {lo}

\* variant: the upper end is one too high
UniformIntPastEnd(lo, hi) == lo .. hi + 1

\* std::uniform_int_distribution<int>(lo, hi): inclusive at both ends
UniformInt(lo, hi) == lo .. hi

\* variant: the probability is ignored
BernoulliAny(p) == BOOLEAN

\* p = 0 never succeeds, p = 1 always does; p outside [0, 1] breaks the
\* precondition of std::bernoulli_distribution and may do either
Bernoulli(p) ==
    IF p = 0 THEN {FALSE} ELSE IF p = 100 THEN {TRUE} ELSE BOOLEAN

RECURSIVE SumSeq(_)
SumSeq(s) == IF s = <<>> THEN 0 ELSE Head(s) + SumSeq(Tail(s))

\* variant: the weights are ignored and the index may be one past the range
DiscreteDistributionPastEnd(weights) == 0 .. Len(weights)

\* std::discrete_distribution<int>(first, last): 0-based index k with
\* probability weights[k] / sum.  An empty range always yields 0.  A sum of
\* zero breaks the precondition 0 < sum: any index of the range may come out.
DiscreteDistribution(weights) ==
    IF Len(weights) = 0 THEN {0}
    ELSE IF SumSeq(weights) > 0
         THEN {k \in 0 .. Len(weights) - 1 : weights[k + 1] > 0}
         ELSE 0 .. Len(weights) - 1

(***************************************************************************)
(* mParams.  operator[] inserts a missing key with value 0.                *)
(***************************************************************************)
\* the initial assignment of setup(); numNodes and the ranges of the edge
\* and neighbour counts are scaled down with NumNodes (the source has
\* numNodes 100, numEdges 1..10, numNeighbors 10..20), keeping
\* numEdgesMax <= numNodes and numNeighborsMax < numNodes
SetupParams ==
    [largeFontSize |-> 2000, smallFontSize |-> 1000,
     edgeWidth |-> 1, nodeRadius |-> 10,
     numNodes |-> NumNodes * 100,
     radiusMean |-> 10000, radiusStd |-> 1000,
     edgeProbMin |-> 5, edgeProbMax |-> 20,
     numEdgesMin |-> 100, numEdgesMax |-> 200,
     numNeighborsMin |-> 100, numNeighborsMax |-> 100,
     rewireProbMin |-> 1, rewireProbMax |-> 10,
     edgeWeightMin |-> 0, edgeWeightMax |-> 10,
     perlinNoiseNorm |-> 1000, deltaTime |-> 10,
     cameraPositionX |-> 100000, cameraPositionY |-> 100000,
     cameraPositionZ |-> 100000,
     cameraTargetX |-> 0, cameraTargetY |-> 0, cameraTargetZ |-> 0]

\* the value mParams[key] evaluates to
At(params, key) == IF key \in DOMAIN params THEN params[key] ELSE 0

\* the mapping after mParams[key] was evaluated for every key of keys
Touched(params, keys) ==
    [k \in DOMAIN params \cup keys |-> At(params, k)]

(***************************************************************************)
(* Nodes and edges.                                                        *)
(***************************************************************************)
\* Node{position}: velocity and acceleration are value-initialised
Node(position) ==
    [mPosition |-> position, mVelocity |-> Zero3, mAcceleration |-> Zero3]

Edge(head, tail, length, weight) ==
    [mHead |-> head, mTail |-> tail, mLength |-> length, mWeight |-> weight]

\* samples of (radius, theta, phi): radius at mean - std, mean, mean + std
\* with the unit vector (sin theta cos phi, sin theta sin phi, cos theta)
\* at (pi/2, 0), (pi/2, pi/2) and (pi, 0)
SphereSamples ==
    {<<-1, <<100, 0, 0>>>>, <<0, <<0, 100, 0>>>>, <<1, <<0, 0, -100>>>>}

generateNode(radiusMean, radiusStd) ==
    {Node(VScale(s[2], radiusMean + s[1] * radiusStd)) : s \in SphereSamples}

\* variant: the list is not cleared
ClearKeeps(list) == list

\* vector::clear
Clear(list) == << >>

RECURSIVE NodeLists(_, _, _, _, _)
\* the loop  for (i = 0; i < numNodes; ++i) mNodes.emplace_back(generateNode(...)),
\* from iteration i on: the node lists it may end with
NodeLists(nodes, i, numNodes, radiusMean, radiusStd) ==
    IF i >= numNodes THEN {nodes}
    ELSE UNION {NodeLists(Append(nodes, nd), i + 1, numNodes, radiusMean, radiusStd) :
                  nd \in generateNode(radiusMean, radiusStd)}

EdgeWeights(params) ==
    UniformReal(At(params, "edgeWeightMin"), At(params, "edgeWeightMax"))

ValidIndex(nodes, i) == i \in 0 .. Len(nodes) - 1

\* mNodes[i].mPosition; a read outside the vector yields an arbitrary
\* vector, sampled as zero
PositionAt(nodes, i) ==
    IF ValidIndex(nodes, i) THEN nodes[i + 1].mPosition ELSE Zero3

\* mNodes[i].mPosition.distance(mNodes[j].mPosition)
NodeDistance(nodes, i, j) ==
    Distance(PositionAt(nodes, i), PositionAt(nodes, j))

(***************************************************************************)
(* generateErdosRenyi.  Each generator is the set of models (node list,    *)
(* edge list) the call may leave, over all outcomes of the random draws.   *)
(***************************************************************************)
RECURSIVE ErdosRenyiEdges(_, _, _, _, _, _, _)
\* the double loop over i < numNodes, j < i, from iteration (i, j) on
ErdosRenyiEdges(edges, nodes, params, numNodes, edgeProb, i, j) ==
    IF i >= numNodes THEN {edges}
    ELSE IF j >= i
    THEN ErdosRenyiEdges(edges, nodes, params, numNodes, edgeProb, i + 1, 0)
    ELSE UNION {
           IF b
           THEN UNION {ErdosRenyiEdges(
                         Append(edges, Edge(i, j, NodeDistance(nodes, i, j), w)),
                         nodes, params, numNodes, edgeProb, i, j + 1) :
                       w \in EdgeWeights(params)}
           ELSE ErdosRenyiEdges(edges, nodes, params, numNodes, edgeProb, i, j + 1) :
           b \in Bernoulli(edgeProb)}

generateErdosRenyi(nodes0, edges0, params, numNodes, radiusMean, radiusStd, edgeProb) ==
    UNION {{[nodes |-> nodes, edges |-> edges] :
              edges \in ErdosRenyiEdges(Clear(edges0), nodes, params, numNodes,
                                        edgeProb, 0, 0)} :
           nodes \in NodeLists(Clear(nodes0), 0, numNodes, radiusMean, radiusStd)}

(***************************************************************************)
(* generateBarabasiAlbert.                                                 *)
(***************************************************************************)
\* std::vector<int> degrees(size, 0) with ++degrees[mHead], ++degrees[mTail]
\* over the edge list
Degrees(size, edges) ==
    [q \in 1 .. size |->
        Cardinality({x \in 1 .. Len(edges) : edges[x].mHead = q - 1})
      + Cardinality({x \in 1 .. Len(edges) : edges[x].mTail = q - 1})]

RECURSIVE AttachEdges(_, _, _, _, _, _, _)
\* the loop over j < numEdges for the new node i, from iteration j on
AttachEdges(edges, nodes, params, degrees, numEdges, i, j) ==
    IF j >= numEdges THEN {edges}
    ELSE UNION {AttachEdges(
                  Append(edges, Edge(i, k, NodeDistance(nodes, i, k), w)),
                  nodes, params, degrees, numEdges, i, j + 1) :
                k \in DiscreteDistribution(degrees), w \in EdgeWeights(params)}

RECURSIVE AttachNodes(_, _, _, _, _, _, _, _)
\* the loop over i from numEdges to numNodes - 1, from iteration i on
AttachNodes(nodes, edges, params, numNodes, radiusMean, radiusStd, numEdges, i) ==
    IF i >= numNodes THEN {[nodes |-> nodes, edges |-> edges]}
    ELSE LET degrees == Degrees(Len(nodes), edges)
         IN  UNION {UNION {AttachNodes(Append(nodes, nd), e, params, numNodes,
                                       radiusMean, radiusStd, numEdges, i + 1) :
                           e \in AttachEdges(edges, Append(nodes, nd), params,
                                             degrees, numEdges, i, 0)} :
                    nd \in generateNode(radiusMean, radiusStd)}

\* variant: the seed graph is drawn with edge probability 0.5
generateBarabasiAlbertSparseSeed(nodes0, edges0, params, numNodes, radiusMean, radiusStd, numEdges) ==
    UNION {AttachNodes(seed.nodes, seed.edges, params, numNodes, radiusMean,
                       radiusStd, numEdges, numEdges) :
           seed \in generateErdosRenyi(nodes0, edges0, params, numEdges,
                                       radiusMean, radiusStd, 50)}

generateBarabasiAlbert(nodes0, edges0, params, numNodes, radiusMean, radiusStd, numEdges) ==
    UNION {AttachNodes(seed.nodes, seed.edges, params, numNodes, radiusMean,
                       radiusStd, numEdges, numEdges) :
           seed \in generateErdosRenyi(nodes0, edges0, params, numEdges,
                                       radiusMean, radiusStd, 100)}

(***************************************************************************)
(* generateWattsStrogatz.                                                  *)
(***************************************************************************)
\* operator< of std::pair<float, int>
PairLess(a, b) == a[1] < b[1] \/ (a[1] = b[1] /\ a[2] < b[2])

\* norms after std::sort: the pairs (distance of node j to node i, j),
\* ascending
SortedNorms(nodes, numNodes, i) ==
    LET norms == {<<NodeDistance(nodes, j, i), j>> : j \in 0 .. numNodes - 1}
    IN  [r \in 1 .. numNodes |->
           CHOOSE x \in norms : Cardinality({y \in norms : PairLess(y, x)}) = r - 1]

\* what the read of norms[j] past the end may yield as node index:
\* samples of an arbitrary int
PastTheEnd(numNodes) == -1 .. numNodes

RECURSIVE NeighborEdges(_, _, _, _, _, _, _, _)
\* the double loop over i < numNodes, j < numNeighbors, from iteration
\* (i, j) on.  fault: the call stopped in a memory fault.
NeighborEdges(edges, nodes, params, numNodes, numNeighbors, rewireProb, i, j) ==
    IF i >= numNodes THEN {[nodes |-> nodes, edges |-> edges, fault |-> FALSE]}
    ELSE IF j >= numNeighbors
    THEN NeighborEdges(edges, nodes, params, numNodes, numNeighbors, rewireProb,
                       i + 1, 0)
    ELSE UNION {
           IF b
           THEN UNION {NeighborEdges(
                         Append(edges, Edge(i, k, NodeDistance(nodes, i, k), w)),
                         nodes, params, numNodes, numNeighbors, rewireProb, i, j + 1) :
                       k \in UniformInt(0, numNodes - 1)}
           ELSE IF j < numNodes
           THEN LET k == SortedNorms(nodes, numNodes, i)[j + 1][2]
                IN  NeighborEdges(
                      Append(edges, Edge(i, k, NodeDistance(nodes, i, k), w)),
                      nodes, params, numNodes, numNeighbors, rewireProb, i, j + 1)
           ELSE {[nodes |-> nodes, edges |-> edges, fault |-> TRUE]}
                \cup UNION {NeighborEdges(
                              Append(edges, Edge(i, k, NodeDistance(nodes, i, k), w)),
                              nodes, params, numNodes, numNeighbors, rewireProb,
                              i, j + 1) :
                            k \in PastTheEnd(numNodes)} :
           w \in EdgeWeights(params), b \in Bernoulli(rewireProb)}

generateWattsStrogatz(nodes0, edges0, params, numNodes, radiusMean, radiusStd, numNeighbors, rewireProb) ==
    UNION {NeighborEdges(Clear(edges0), nodes, params, numNodes, numNeighbors,
                         rewireProb, 0, 0) :
           nodes \in NodeLists(Clear(nodes0), 0, numNodes, radiusMean, radiusStd)}

(***************************************************************************)
(* update(): one step of the layout simulation.  mVertices, the screen     *)
(* projection of the nodes used only for drawing, is not modelled.         *)
(***************************************************************************)
\* ofSignedNoise, a function of the position alone with values in [-1, 1]
\* (openFrameworks, not part of the repository): a stand-in taking the
\* values -1, 0 and 1
ofSignedNoise(x, y, z) ==
    ((((x \div 100) + 2 * (y \div 100) + 3 * (z \div 100)) % 3) - 1) * 100

\* variant: the noise is not scaled by "perlinNoiseNorm"
NoiseAccelerationUnscaled(p, params) ==
    <<ofSignedNoise(p[1], p[2], p[3]),
      ofSignedNoise(p[2], p[3], p[1]),
      ofSignedNoise(p[3], p[1], p[2])>>

\* first loop: the acceleration of a node at position p
NoiseAcceleration(p, params) ==
    VScale(<<ofSignedNoise(p[1], p[2], p[3]),
             ofSignedNoise(p[2], p[3], p[1]),
             ofSignedNoise(p[3], p[1], p[2])>>,
           At(params, "perlinNoiseNorm"))

\* mNodes[i].mAcceleration += delta; a write outside the vector does not
\* land in the node list
Accelerated(nodes, i, delta) ==
    IF ValidIndex(nodes, i)
    THEN [nodes EXCEPT ![i + 1].mAcceleration = VAdd(@, delta)]
    ELSE nodes

RECURSIVE SpringForces(_, _, _)
\* second loop over the edges, from edge x on
SpringForces(nodes, edges, x) ==
    IF x > Len(edges) THEN nodes
    ELSE LET edge == edges[x]
             direction == VSub(PositionAt(nodes, edge.mTail),
                               PositionAt(nodes, edge.mHead))
             stretch == VSub(direction,
                             VScale(VNormalized(direction), edge.mLength))
             force == VScale(stretch, edge.mWeight)
         IN  SpringForces(
               Accelerated(Accelerated(nodes, edge.mHead, force),
                           edge.mTail, VSub(Zero3, force)),
               edges, x + 1)

\* third loop: velocity and position of one node
Integrated(node, params) ==
    LET dt == At(params, "deltaTime")
        velocity == VAdd(node.mVelocity, VScale(node.mAcceleration, dt))
    IN  [mAcceleration |-> node.mAcceleration,
         mVelocity |-> velocity,
         mPosition |->
            VAdd(node.mPosition,
                 VAdd(VScale(velocity, dt),
                      VScale(VScale(VScale(node.mAcceleration, 50), dt), dt)))]

UpdatedNodes(nodes, edges, params) ==
    LET noised == [i \in 1 .. Len(nodes) |->
                     [nodes[i] EXCEPT !.mAcceleration =
                        NoiseAcceleration(nodes[i].mPosition, params)]]
        forced == SpringForces(noised, edges, 1)
    IN  [i \in 1 .. Len(nodes) |-> Integrated(forced[i], params)]

\* some edge names a node outside the node list: update() reads and writes
\* outside the vector
EdgeOutOfRange(nodes, edges) ==
    \E x \in 1 .. Len(edges) :
        ~ValidIndex(nodes, edges[x].mHead) \/ ~ValidIndex(nodes, edges[x].mTail)

(***************************************************************************)
(* The application: setup(), keyPressed(key), update().                    *)
(***************************************************************************)
Indeterminate == "indeterminate"

NoCall == [op |-> "none", numNodes |-> 0, param |-> 0, prob |-> 0]

Init ==
    /\ pc = "constructed"
    /\ mParams = << >>
    /\ mGraphType = Indeterminate
    /\ mNodes = << >>
    /\ mEdges = << >>
    /\ mEdgeProb = Indeterminate
    /\ mNumEdges = Indeterminate
    /\ mNumNeighbors = Indeterminate
    /\ mRewireProb = Indeterminate
    /\ call = NoCall
    /\ steps = 0

\* keys read through operator[] by the generators
GeneratorKeys == {"edgeWeightMin", "edgeWeightMax"}

\* the effect of a generation on the lists; a memory fault ends the process
Generated(result) ==
    /\ mNodes' = result.nodes
    /\ mEdges' = result.edges
    /\ steps' = 0

\* lines 90-93 and 292-295: select Watts-Strogatz, draw its parameters
\* from the mapping params, generate
SelectWattsStrogatz(params, op) ==
    \E numNeighbors \in UniformInt(ToInt(At(params, "numNeighborsMin")),
                                   ToInt(At(params, "numNeighborsMax"))),
       rewireProb \in UniformReal(At(params, "rewireProbsMin"),
                                  At(params, "rewireProbMax")) :
       /\ mGraphType' = "WattsStrogatz"
       /\ mNumNeighbors' = numNeighbors
       /\ mRewireProb' = rewireProb
       /\ mParams' = Touched(params, {"numNeighborsMin", "numNeighborsMax",
                                      "rewireProbsMin", "rewireProbMax",
                                      "numNodes", "radiusMean", "radiusStd"}
                                     \cup GeneratorKeys)
       /\ call' = [op |-> op, numNodes |-> ToInt(At(params, "numNodes")),
                   param |-> numNeighbors, prob |-> rewireProb]
       /\ \E result \in generateWattsStrogatz(
                          mNodes, mEdges, params, ToInt(At(params, "numNodes")),
                          At(params, "radiusMean"), At(params, "radiusStd"),
                          numNeighbors, rewireProb) :
             /\ Generated(result)
             /\ pc' = IF result.fault THEN "crashed" ELSE "running"
       /\ UNCHANGED <<mEdgeProb, mNumEdges>>

Setup ==
    /\ pc = "constructed"
    /\ SelectWattsStrogatz(SetupParams, "setup")

KeyErdosRenyi ==
    /\ pc = "running"
    /\ \E edgeProb \in UniformReal(At(mParams, "edgeProbMin"),
                                   At(mParams, "edgeProbMax")) :
       /\ mGraphType' = "ErdosRenyi"
       /\ mEdgeProb' = edgeProb
       /\ mParams' = Touched(mParams, {"edgeProbMin", "edgeProbMax", "numNodes",
                                       "radiusMean", "radiusStd"}
                                      \cup GeneratorKeys)
       /\ call' = [op |-> "e", numNodes |-> ToInt(At(mParams, "numNodes")),
                   param |-> 0, prob |-> edgeProb]
       /\ \E result \in generateErdosRenyi(
                          mNodes, mEdges, mParams, ToInt(At(mParams, "numNodes")),
                          At(mParams, "radiusMean"), At(mParams, "radiusStd"),
                          edgeProb) :
             Generated(result)
       /\ UNCHANGED <<pc, mNumEdges, mNumNeighbors, mRewireProb>>

KeyBarabasiAlbert ==
    /\ pc = "running"
    /\ \E numEdges \in UniformInt(ToInt(At(mParams, "numEdgesMin")),
                                  ToInt(At(mParams, "numEdgesMax"))) :
       /\ mGraphType' = "BarabasiAlbert"
       /\ mNumEdges' = numEdges
       /\ mParams' = Touched(mParams, {"numEdgesMin", "numEdgesMax", "numNodes",
                                       "radiusMean", "radiusStd"}
                                      \cup GeneratorKeys)
       /\ call' = [op |-> "b", numNodes |-> ToInt(At(mParams, "numNodes")),
                   param |-> numEdges, prob |-> 0]
       /\ \E result \in generateBarabasiAlbert(
                          mNodes, mEdges, mParams, ToInt(At(mParams, "numNodes")),
                          At(mParams, "radiusMean"), At(mParams, "radiusStd"),
                          numEdges) :
             Generated(result)
       /\ UNCHANGED <<pc, mEdgeProb, mNumNeighbors, mRewireProb>>

KeyWattsStrogatz ==
    /\ pc = "running"
    /\ SelectWattsStrogatz(mParams, "w")

\* any other key: the switch has no default
KeyOther ==
    /\ pc = "running"
    /\ UNCHANGED vars

keyPressed == KeyErdosRenyi \/ KeyBarabasiAlbert \/ KeyWattsStrogatz \/ KeyOther

\* update() after at least one generation; with an edge out of range the
\* step may also end the process
Update ==
    /\ pc = "running"
    /\ call.op # "none"
    /\ steps < MaxSteps
    /\ \/ /\ mNodes' = UpdatedNodes(mNodes, mEdges, mParams)
          /\ pc' = pc
       \/ /\ EdgeOutOfRange(mNodes, mEdges)
          /\ mNodes' = mNodes
          /\ pc' = "crashed"
    /\ steps' = steps + 1
    /\ mParams' = Touched(mParams, IF mNodes = << >> THEN {}
                                   ELSE {"perlinNoiseNorm", "deltaTime"})
    /\ UNCHANGED <<mGraphType, mEdges, mEdgeProb, mNumEdges, mNumNeighbors,
                   mRewireProb, call>>

Next == Setup \/ keyPressed \/ Update

Spec == Init /\ [][Next]_vars

(***************************************************************************)
(* The generators as public member functions: one direct call with         *)
(* arbitrary arguments on an instance that ran setup(), followed by        *)
(* update() steps.  The noise magnitude is a value the caller has put in   *)
(* the public mapping mParams.                                             *)
(***************************************************************************)
\* samples of "perlinNoiseNorm": none, and the value of setup()
NoiseNorms == {0, At(SetupParams, "perlinNoiseNorm")}

\* samples of the edgeProb and rewireProb arguments, 1.5 outside [0, 1]
ProbArgs == {0, 50, 100, 150}

RECURSIVE Stepped(_, _, _, _)
\* the node list after count calls of update()
Stepped(nodes, edges, params, count) ==
    IF count = 0 THEN nodes
    ELSE Stepped(UpdatedNodes(nodes, edges, params), edges, params, count - 1)

\* samples of the models setup() leaves: rewire probability 0, edge
\* weights 0 and every node drawn at the mean radius
SetupModels ==
    {r \in generateWattsStrogatz(<< >>, << >>, SetupParams,
                                 ToInt(At(SetupParams, "numNodes")),
                                 At(SetupParams, "radiusMean"),
                                 At(SetupParams, "radiusStd"), 1, 0) :
       /\ \A x \in 1 .. Len(r.edges) : r.edges[x].mWeight = 0
       /\ \A i \in 1 .. Len(r.nodes) :
            VLength(r.nodes[i].mPosition) = At(SetupParams, "radiusMean")}

\* an instance that ran setup() and MaxSteps steps of update()
InitGen ==
    /\ pc = "running"
    /\ \E norm \in NoiseNorms :
         mParams = [Touched(SetupParams, {"rewireProbsMin"})
                      EXCEPT !["perlinNoiseNorm"] = norm]
    /\ mGraphType = "WattsStrogatz"
    /\ \E r \in SetupModels :
         /\ mNodes = Stepped(r.nodes, r.edges, mParams, MaxSteps)
         /\ mEdges = r.edges
    /\ mEdgeProb = Indeterminate
    /\ mNumEdges = Indeterminate
    /\ mNumNeighbors = 1
    /\ mRewireProb = 0
    /\ call = [op |-> "setup", numNodes |-> ToInt(At(SetupParams, "numNodes")),
               param |-> 1, prob |-> 0]
    /\ steps = MaxSteps

\* pairs (i, j) with j < i < n
Pairs(n) == (n * (n - 1)) \div 2

\* nodes plus edges a Barabasi-Albert call builds
BarabasiAlbertSize(numNodes, numEdges) ==
    IF numNodes > numEdges
    THEN numNodes + Pairs(numEdges) + (numNodes - numEdges) * numEdges
    ELSE numEdges + Pairs(numEdges)

DirectCall(op, numNodes, param, prob) ==
    /\ pc = "running"
    /\ call.op = "setup"
    /\ call' = [op |-> op, numNodes |-> numNodes, param |-> param, prob |-> prob]
    /\ mParams' = Touched(mParams, GeneratorKeys)
    /\ UNCHANGED <<mGraphType, mEdgeProb, mNumEdges, mNumNeighbors, mRewireProb>>

CallErdosRenyi ==
    \E numNodes \in 0 .. MaxNodes, edgeProb \in ProbArgs :
       /\ numNodes + Pairs(numNodes) <= MaxSize
       /\ DirectCall("ER", numNodes, 0, edgeProb)
       /\ \E result \in generateErdosRenyi(
                          mNodes, mEdges, mParams, numNodes,
                          At(mParams, "radiusMean"), At(mParams, "radiusStd"),
                          edgeProb) :
             Generated(result)
       /\ pc' = pc

CallBarabasiAlbert ==
    \E numNodes \in 0 .. MaxNodes, numEdges \in 0 .. MaxNodes + 1 :
       /\ BarabasiAlbertSize(numNodes, numEdges) <= MaxSize
       /\ DirectCall("BA", numNodes, numEdges, 0)
       /\ \E result \in generateBarabasiAlbert(
                          mNodes, mEdges, mParams, numNodes,
                          At(mParams, "radiusMean"), At(mParams, "radiusStd"),
                          numEdges) :
             Generated(result)
       /\ pc' = pc

CallWattsStrogatz ==
    \E numNodes \in 0 .. MaxNodes, numNeighbors \in 0 .. MaxNodes + 1,
       rewireProb \in {0, 50} :
       /\ numNodes + numNodes * numNeighbors <= MaxSize
       /\ DirectCall("WS", numNodes, numNeighbors, rewireProb)
       /\ \E result \in generateWattsStrogatz(
                          mNodes, mEdges, mParams, numNodes,
                          At(mParams, "radiusMean"), At(mParams, "radiusStd"),
                          numNeighbors, rewireProb) :
             /\ Generated(result)
             /\ pc' = IF result.fault THEN "crashed" ELSE "running"

NextGen == CallErdosRenyi \/ CallBarabasiAlbert \/ CallWattsStrogatz \/ Update

SpecGen == InitGen /\ [][NextGen]_vars

(***************************************************************************)
(* Properties.                                                             *)
(***************************************************************************)
Direct == {"ER", "BA", "WS"}

Switch == {"e", "b", "w"}

EdgeIndices == 1 .. Len(mEdges)

\* edges emitted with head i
EdgesOf(i) == {x \in EdgeIndices : mEdges[x].mHead = i}

\* velocity and acceleration of every node are zero
Still(nodes) ==
    \A i \in 1 .. Len(nodes) :
        nodes[i].mVelocity = Zero3 /\ nodes[i].mAcceleration = Zero3

\* C1: after generateWattsStrogatz with rewireProb = 0 and numNeighbors <
\* numNodes, the numNeighbors edges with head i go to the numNeighbors nodes
\* nearest to i among the nodes other than i; no edge (i, i) is emitted.
C1_NearestOtherNodes ==
    (pc = "running" /\ call.op = "WS" /\ call.prob = 0
       /\ call.param < call.numNodes /\ steps = 0)
    => \A i \in 0 .. call.numNodes - 1 :
          LET targets == {mEdges[x].mTail : x \in EdgesOf(i)}
              others == (0 .. call.numNodes - 1) \ {i}
          IN  /\ Cardinality(EdgesOf(i)) = call.param
              /\ Cardinality(targets) = call.param
              /\ targets \subseteq others
              /\ \A t \in targets, o \in others \ targets :
                    NodeDistance(mNodes, i, t) <= NodeDistance(mNodes, i, o)

\* C2: in the running application, after any sequence of setup, model
\* switches and simulation steps, head and tail of every edge are indices
\* of the current node list.
C2_EdgesInRange ==
    pc = "running"
    => \A x \in EdgeIndices :
          ValidIndex(mNodes, mEdges[x].mHead) /\ ValidIndex(mNodes, mEdges[x].mTail)

\* a Watts-Strogatz switch that drew a positive rewire probability, followed
\* by simulation steps
C2_Witness ==
    /\ pc = "running" /\ call.op = "w" /\ call.prob > 0
    /\ steps >= 2 /\ Len(mEdges) >= 2

\* C3: generateErdosRenyi and generateBarabasiAlbert never emit a
\* self-loop, whatever their arguments and the random draws.
C3_NoSelfLoops ==
    call.op \in {"ER", "BA"}
    => \A x \in EdgeIndices : mEdges[x].mHead # mEdges[x].mTail

\* a Barabasi-Albert call that attached two later nodes
C3_Witness ==
    /\ call.op = "BA" /\ call.param = 1 /\ call.numNodes = 3
    /\ Len(mEdges) = 2 /\ steps = 0

\* C4: generateErdosRenyi over n nodes emits no edge when edgeProb = 0 and
\* n(n-1)/2 edges when edgeProb = 1; in every case no unordered pair of
\* distinct nodes appears twice in the edge list.
C4_ErdosRenyiCounts ==
    call.op = "ER"
    => /\ call.prob = 0 => Len(mEdges) = 0
       /\ call.prob = 100
            => 2 * Len(mEdges) = call.numNodes * (call.numNodes - 1)
       /\ \A x, y \in EdgeIndices :
            x # y => {mEdges[x].mHead, mEdges[x].mTail}
                       # {mEdges[y].mHead, mEdges[y].mTail}

\* the complete graph on three nodes
C4_Witness ==
    /\ call.op = "ER" /\ call.prob = 100 /\ call.numNodes = 3
    /\ Len(mEdges) = 3 /\ steps = 0

\* C5: generateBarabasiAlbert with numEdges = m <= numNodes = n ends with n
\* nodes and m(m-1)/2 + (n - m) * m edges, whatever the weighted draws select.
C5_BarabasiAlbertCounts ==
    (call.op = "BA" /\ call.param <= call.numNodes)
    => /\ Len(mNodes) = call.numNodes
       /\ 2 * Len(mEdges) = call.param * (call.param - 1)
                              + 2 * (call.numNodes - call.param) * call.param

\* a seed of two nodes and one attached node
C5_Witness ==
    /\ call.op = "BA" /\ call.param = 2 /\ call.numNodes = 3
    /\ Len(mNodes) = 3 /\ Len(mEdges) = 3 /\ steps = 0

\* the arguments of a generation call are outside their domain
OutOfDomain(c) ==
    \/ c.op = "ER" /\ c.prob \notin 0 .. 100
    \/ c.op = "BA" /\ c.param > c.numNodes
    \/ c.op = "WS" /\ c.param >= c.numNodes

\* C6: a generation call with an out-of-domain argument leaves the node
\* list and the edge list as they were before the call.
C6_OutOfDomainKeepsModel ==
    [][(call.op = "setup" /\ call'.op \in Direct /\ OutOfDomain(call'))
         => (mNodes' = mNodes /\ mEdges' = mEdges)]_vars

\* C7: with no edges and noise magnitude zero, a simulation step on a
\* generated model leaves every node where it was, with velocity and
\* acceleration zero.
C7_NoForcesNoMotion ==
    [][(pc = "running" /\ call.op \in Direct /\ mEdges = << >>
          /\ At(mParams, "perlinNoiseNorm") = 0 /\ steps' = steps + 1)
         => (mNodes' = mNodes /\ Still(mNodes'))]_vars

\* two steps on three nodes without edges and without noise
C7_Witness ==
    /\ pc = "running" /\ call.op = "ER" /\ mEdges = << >>
    /\ At(mParams, "perlinNoiseNorm") = 0
    /\ steps >= 2 /\ Len(mNodes) = 3

\* C8: immediately after a model switch of the running application the
\* node list holds numNodes nodes with zero velocity and acceleration, and
\* the edge list is a list the generator emits over these nodes: edges
\* in the order of their heads, each with the rest length of its end points,
\* as many as the generator emits.
C8_RebuiltOnSwitch ==
    (pc = "running" /\ call.op \in Switch /\ steps = 0)
    => /\ Len(mNodes) = call.numNodes
       /\ Still(mNodes)
       /\ \A x \in EdgeIndices :
            /\ ValidIndex(mNodes, mEdges[x].mHead)
            /\ ValidIndex(mNodes, mEdges[x].mTail)
            /\ mEdges[x].mLength
                 = NodeDistance(mNodes, mEdges[x].mHead, mEdges[x].mTail)
            /\ x > 1 => mEdges[x - 1].mHead <= mEdges[x].mHead
       /\ call.op = "e"
            => \A x, y \in EdgeIndices :
                  /\ mEdges[x].mTail < mEdges[x].mHead
                  /\ x # y => <<mEdges[x].mHead, mEdges[x].mTail>>
                                # <<mEdges[y].mHead, mEdges[y].mTail>>
       /\ call.op = "b"
            => 2 * Len(mEdges) = call.param * (call.param - 1)
                                   + 2 * (call.numNodes - call.param) * call.param
       /\ call.op = "w"
            => \A i \in 0 .. call.numNodes - 1 :
                  Cardinality(EdgesOf(i)) = call.param

\* a switch to Barabasi-Albert, made after setup built another model
C8_Witness ==
    /\ pc = "running" /\ call.op = "b" /\ steps = 0
    /\ mNumNeighbors = 1 /\ Len(mEdges) >= 1

\* C9: after setup's initial assignment the parameter mapping keeps its
\* keys and values, and the rewire probability of Watts-Strogatz lies in
\* [rewireProbMin, rewireProbMax].
C9_ParamsReadOnly ==
    pc = "running"
    => /\ mParams = SetupParams
       /\ mGraphType = "WattsStrogatz"
            => /\ mRewireProb >= SetupParams.rewireProbMin
               /\ mRewireProb <= SetupParams.rewireProbMax

\* the degree of node k over the edges emitted before node i is attached
DegreeBefore(i, k) ==
    Cardinality({x \in EdgeIndices : mEdges[x].mHead < i /\ mEdges[x].mHead = k})
  + Cardinality({x \in EdgeIndices : mEdges[x].mHead < i /\ mEdges[x].mTail = k})

\* C10: after a switch to Barabasi-Albert with numEdges = m >= 1 and
\* numNodes > m, every target drawn for a later node had positive degree
\* when it was drawn.
C10_TargetsHavePositiveDegree ==
    (pc = "running" /\ call.op = "b" /\ call.param >= 1
       /\ call.numNodes > call.param)
    => \A x \in EdgeIndices :
          mEdges[x].mHead >= call.param
            => DegreeBefore(mEdges[x].mHead, mEdges[x].mTail) > 0

====
